---------------------------- MODULE Spec2Model ----------------------------
(***************************************************************************)
(* Model of src/app.py, the Bullwhip Effect Simulator: a Streamlit script  *)
(* that is executed top to bottom once when the page opens and once more   *)
(* after every change of a sidebar widget.                                 *)
(*                                                                         *)
(* Numbers.  The script computes with Python floats.  The model computes   *)
(* with exact rationals [n |-> numerator, d |-> denominator > 0] in lowest *)
(* terms, i.e. with the real numbers the floats approximate; the rounding  *)
(* of a float operation (about 1 part in 10^16) is not modelled.  The      *)
(* conversions of the display (int(), ":.1f", ":,.2f") are modelled by     *)
(* what they do to the value.                                              *)
(*                                                                         *)
(* Namespace.  ns holds the module-level names the logic section assigns.  *)
(* The model hands the namespace left by one run to the next run, so that  *)
(* "no value persists between evaluations" is something the statements of  *)
(* the script have to establish (each name is assigned before it is read). *)
(***************************************************************************)
EXTENDS Integers, Sequences, FiniteSets

VARIABLES
    unit_price,     \* line 21: value of the number input, a float
    base_demand,    \* line 25: value of the slider, an int
    demand_spike,   \* line 26: value of the slider, an int
    safety_buffer,  \* line 29: value of the slider, an int
    ns,             \* lines 33-48: the names the logic assigns
    chart,          \* lines 52-71: the figure shown, <<>> before any
    summary,        \* lines 75-89: the texts shown, each <<>> if not written
    error,          \* the exception that ended the run, or "none"
    history,        \* inputs and outputs of every run of the page so far
    runs,           \* number of reruns after the first run
    pc              \* "call" before lines 33-89 have run, "done" after

vars == <<unit_price, base_demand, demand_spike, safety_buffer,
          ns, chart, summary, error, history, runs, pc>>

---------------------------------------------------------------------------
(* Bounds of the model *)

\* number of widget changes (reruns of the script) followed after page load
MaxRuns == 3

---------------------------------------------------------------------------
(* Float arithmetic of the script, as exact rational arithmetic *)

Abs(x) == IF x < 0 THEN -x ELSE x

RECURSIVE GCD(_, _)
GCD(a, b) == IF b = 0 THEN a ELSE GCD(b, a % b)

\* the rational n/d (d # 0) in lowest terms with a positive denominator
Rat(n, d) ==
    LET g == GCD(Abs(n), Abs(d))
        s == IF d < 0 THEN -1 ELSE 1
    IN  [n |-> s * (n \div g), d |-> s * (d \div g)]

\* an int operand of a float operation (base_demand, 1, 100)
RInt(i) == [n |-> i, d |-> 1]

\* x + y
RAdd(x, y) ==
    LET g == GCD(x.d, y.d)
        l == (x.d \div g) * y.d
    IN  Rat(x.n * (l \div x.d) + y.n * (l \div y.d), l)

\* x - y
RSub(x, y) == RAdd(x, [n |-> -y.n, d |-> y.d])

\* x * y
RMul(x, y) ==
    LET g1 == GCD(Abs(x.n), y.d)
        g2 == GCD(Abs(y.n), x.d)
    IN  Rat((x.n \div g1) * (y.n \div g2), (x.d \div g2) * (y.d \div g1))

\* x / y for y # 0 (Python raises ZeroDivisionError for y = 0, see Summary)
RDiv(x, y) == RMul(x, Rat(y.d, y.n))

\* sum(values): Python's left fold starting from 0
RECURSIVE Sum(_)
Sum(values) ==
    IF values = <<>> THEN RInt(0)
    ELSE RAdd(Sum(SubSeq(values, 1, Len(values) - 1)), values[Len(values)])

---------------------------------------------------------------------------
(* Conversions of the display *)

\* int(x): truncation toward zero
IntTrunc(x) == IF x.n >= 0 THEN x.n \div x.d ELSE -((-x.n) \div x.d)

RECURSIVE Pow10(_)
Pow10(k) == IF k = 0 THEN 1 ELSE 10 * Pow10(k - 1)

\* format(x, ".<digits>f"): x rounded to `digits` decimals, ties to even;
\* the text is represented by the number of units of 10^-digits it shows
\* ("128.1" with digits = 1 is 1281)
FormatFixed(x, digits) ==
    LET s   == RMul(x, RInt(Pow10(digits)))
        q   == s.n \div s.d
        rem == s.n - q * s.d
    IN  IF 2 * rem > s.d THEN q + 1
        ELSE IF 2 * rem < s.d THEN q
        ELSE IF q % 2 = 0 THEN q ELSE q + 1

---------------------------------------------------------------------------
(* Sidebar widgets (lines 19-30) *)

UnitPriceDefault == 100
UnitPriceStep == 10
BaseDemandMin == 50
BaseDemandMax == 1000
BaseDemandDefault == 200
DemandSpikeMin == 0
DemandSpikeMax == 50
DemandSpikeDefault == 10
SafetyBufferMin == 0
SafetyBufferMax == 50
SafetyBufferDefault == 15

\* st.slider(label, min, max, default): the values the slider can return,
\* sampled at the ends, the default and round values in between
SlideRange(lo, hi, samples) == {v \in samples \cup {lo, hi} : lo <= v /\ v <= hi}

\* variant of line 25 with a slider that starts at 0
BaseDemandRangeNoMin == {0} \cup SlideRange(BaseDemandMin, BaseDemandMax, {100, BaseDemandDefault})
BaseDemandRange == SlideRange(BaseDemandMin, BaseDemandMax, {100, BaseDemandDefault})
DemandSpikeRange == SlideRange(DemandSpikeMin, DemandSpikeMax, {DemandSpikeDefault})
SafetyBufferRange == SlideRange(SafetyBufferMin, SafetyBufferMax, {SafetyBufferDefault, 20})

\* st.number_input(value=100.0, step=10.0): a float with no minimum and no
\* maximum; the default, one step down and up, and typed values
UnitPriceRange ==
    {RInt(UnitPriceDefault), RInt(UnitPriceDefault - UnitPriceStep),
     RInt(UnitPriceDefault + UnitPriceStep), RInt(5), RInt(0)}

---------------------------------------------------------------------------
(* THE LOGIC (lines 32-48), statement by statement on the namespace *)

stages == <<"Customer", "Pharmacy", "Wholesaler", "Distributor", "Factory">>

\* the namespace before the script has assigned anything
EmptyNS ==
    [current_demand |-> RInt(0), baseline_values |-> <<>>,
     amplified_values |-> <<>>, temp_val |-> RInt(0),
     total_excess_inventory |-> RInt(0), trapped_capital |-> RInt(0)]

\* 1 + (pct / 100)
Factor(pct) == RAdd(RInt(1), RDiv(RInt(pct), RInt(100)))

\* variant of line 34 without the "1 +"
StartValueNoOne(n, bd, ds) ==
    [n EXCEPT !.current_demand = RMul(RInt(bd), RDiv(RInt(ds), RInt(100)))]

\* line 34: current_demand = base_demand * (1 + (demand_spike / 100))
StartValue(n, bd, ds) ==
    [n EXCEPT !.current_demand = RMul(RInt(bd), Factor(ds))]

\* variant of line 37 anchored at the value after the spike
BaselineAtSpike(n, bd) ==
    [n EXCEPT !.baseline_values = [i \in 1..Len(stages) |-> n.current_demand]]

\* line 37: baseline_values = [base_demand] * len(stages)
Baseline(n, bd) ==
    [n EXCEPT !.baseline_values = [i \in 1..Len(stages) |-> RInt(bd)]]

\* variant of line 40 that appends to the list instead of replacing it
AmplifiedKept(n) ==
    [n EXCEPT !.amplified_values = Append(n.amplified_values, n.current_demand),
              !.temp_val = n.current_demand]

\* lines 40-41: amplified_values = [current_demand]; temp_val = current_demand
AmplifiedStart(n) ==
    [n EXCEPT !.amplified_values = <<n.current_demand>>,
              !.temp_val = n.current_demand]

\* variant of line 43 that marks up current_demand, not the previous stage
LoopBodyOnStart(n, sb) ==
    LET t == RMul(n.current_demand, Factor(sb))
    IN  [n EXCEPT !.temp_val = t,
                  !.amplified_values = Append(n.amplified_values, t)]

\* variant of line 43 with the sign of the buffer flipped
LoopBodyMinus(n, sb) ==
    LET t == RMul(n.temp_val, Factor(-sb))
    IN  [n EXCEPT !.temp_val = t,
                  !.amplified_values = Append(n.amplified_values, t)]

\* variant of line 43 without the "1 +"
LoopBodyNoOne(n, sb) ==
    LET t == RMul(n.temp_val, RDiv(RInt(sb), RInt(100)))
    IN  [n EXCEPT !.temp_val = t,
                  !.amplified_values = Append(n.amplified_values, t)]

\* lines 43-44: temp_val = temp_val * (1 + (safety_buffer / 100))
\*              amplified_values.append(temp_val)
LoopBody(n, sb) ==
    LET t == RMul(n.temp_val, Factor(sb))
    IN  [n EXCEPT !.temp_val = t,
                  !.amplified_values = Append(n.amplified_values, t)]

RECURSIVE Iterate(_, _, _)
Iterate(n, sb, k) == IF k <= 0 THEN n ELSE Iterate(LoopBody(n, sb), sb, k - 1)

\* line 42: for i in range(len(stages) - 1)
Loop(n, sb) == Iterate(n, sb, Len(stages) - 1)

\* variant of line 47 that takes the last stage only
ExcessOfLast(n) ==
    [n EXCEPT !.total_excess_inventory =
        RSub(n.amplified_values[Len(n.amplified_values)],
             n.baseline_values[Len(n.baseline_values)])]

\* line 47: total_excess_inventory = sum(amplified_values) - sum(baseline_values)
TotalExcess(n) ==
    [n EXCEPT !.total_excess_inventory =
        RSub(Sum(n.amplified_values), Sum(n.baseline_values))]

\* variant of lines 47-48 that prices the amplified sum only
TrappedOnAmplifiedOnly(n, up) ==
    [n EXCEPT !.trapped_capital =
        RSub(RMul(Sum(n.amplified_values), up), Sum(n.baseline_values))]

\* line 48: trapped_capital = total_excess_inventory * unit_price
Trapped(n, up) ==
    [n EXCEPT !.trapped_capital = RMul(n.total_excess_inventory, up)]

\* lines 33-48 from the namespace n with the widget values up, bd, ds, sb
Logic(n, up, bd, ds, sb) ==
    Trapped(TotalExcess(Loop(AmplifiedStart(Baseline(StartValue(n, bd, ds), bd)), sb)), up)

---------------------------------------------------------------------------
(* VISUALIZATION (lines 52-71) and FINANCIAL SUMMARY (lines 75-89) *)

\* the two traces handed to st.plotly_chart
Chart(n) ==
    <<[x |-> stages, steady |-> n.baseline_values, amplified |-> n.amplified_values]>>

\* line 81: ((amplified_values[-1]/base_demand)-1)*100, for base_demand # 0
Overproduction(n, bd) ==
    RMul(RSub(RDiv(n.amplified_values[Len(n.amplified_values)], RInt(bd)),
              RInt(1)),
         RInt(100))

\* lines 77-89.  Line 78 shows int(total_excess_inventory); the f-string of
\* lines 79-82 divides by base_demand and raises ZeroDivisionError when it is
\* 0, which ends the run before column c2 is written.  A text that was not
\* written is <<>>.
Summary(n, bd) ==
    IF bd = 0
    THEN [error |-> "ZeroDivisionError",
          summary |-> [over_ordering |-> <<IntTrunc(n.total_excess_inventory)>>,
                       overproduction |-> <<>>,
                       trapped |-> <<>>]]
    ELSE [error |-> "none",
          summary |-> [over_ordering |-> <<IntTrunc(n.total_excess_inventory)>>,
                       overproduction |-> <<FormatFixed(Overproduction(n, bd), 1)>>,
                       trapped |-> <<FormatFixed(n.trapped_capital, 2)>>]]

\* one execution of the script, lines 33-89
Script(n, up, bd, ds, sb) ==
    LET m == Logic(n, up, bd, ds, sb)
        s == Summary(m, bd)
    IN  [ns |-> m, chart |-> Chart(m), summary |-> s.summary, error |-> s.error]

\* what one evaluation was given and what it produced
Inputs(up, bd, ds, sb) ==
    [unit_price |-> up, base_demand |-> bd, demand_spike |-> ds, safety_buffer |-> sb]

Outputs(r, bd) ==
    [baseline |-> r.ns.baseline_values,
     amplified |-> r.ns.amplified_values,
     excessInventory |-> r.ns.total_excess_inventory,
     trappedCapital |-> r.ns.trapped_capital,
     finalOverproductionRatio |-> r.summary.overproduction,
     error |-> r.error]

---------------------------------------------------------------------------
(* The application: page load, then one rerun per widget change *)

\* a run of the whole script with the widget values up, bd, ds, sb
Run(up, bd, ds, sb) ==
    LET r == Script(ns, up, bd, ds, sb)
    IN  /\ unit_price' = up
        /\ base_demand' = bd
        /\ demand_spike' = ds
        /\ safety_buffer' = sb
        /\ ns' = r.ns
        /\ chart' = r.chart
        /\ summary' = r.summary
        /\ error' = r.error
        /\ history' = history \cup {[in |-> Inputs(up, bd, ds, sb), out |-> Outputs(r, bd)]}
        /\ runs' = runs + 1
        /\ pc' = "done"

\* the page after its first run, every widget at its default
Init ==
    LET up == RInt(UnitPriceDefault)
        r  == Script(EmptyNS, up, BaseDemandDefault, DemandSpikeDefault, SafetyBufferDefault)
    IN  /\ unit_price = up
        /\ base_demand = BaseDemandDefault
        /\ demand_spike = DemandSpikeDefault
        /\ safety_buffer = SafetyBufferDefault
        /\ ns = r.ns
        /\ chart = r.chart
        /\ summary = r.summary
        /\ error = r.error
        /\ history = {[in |-> Inputs(up, BaseDemandDefault, DemandSpikeDefault, SafetyBufferDefault),
                       out |-> Outputs(r, BaseDemandDefault)]}
        /\ runs = 0
        /\ pc = "done"

\* line 21: the number input changes
ChangeUnitPrice(up) ==
    /\ runs < MaxRuns
    /\ up # unit_price
    /\ Run(up, base_demand, demand_spike, safety_buffer)

\* line 25: the base demand slider moves
SlideBaseDemand(bd) ==
    /\ runs < MaxRuns
    /\ bd # base_demand
    /\ Run(unit_price, bd, demand_spike, safety_buffer)

\* line 26: the demand increase slider moves
SlideDemandSpike(ds) ==
    /\ runs < MaxRuns
    /\ ds # demand_spike
    /\ Run(unit_price, base_demand, ds, safety_buffer)

\* line 29: the safety buffer slider moves
SlideSafetyBuffer(sb) ==
    /\ runs < MaxRuns
    /\ sb # safety_buffer
    /\ Run(unit_price, base_demand, demand_spike, sb)

Next ==
    \/ \E up \in UnitPriceRange : ChangeUnitPrice(up)
    \/ \E bd \in BaseDemandRange : SlideBaseDemand(bd)
    \/ \E ds \in DemandSpikeRange : SlideDemandSpike(ds)
    \/ \E sb \in SafetyBufferRange : SlideSafetyBuffer(sb)

Spec == Init /\ [][Next]_vars

---------------------------------------------------------------------------
(* The logic as a function of its inputs: lines 33-89 applied once to      *)
(* arguments drawn from beyond the slider ranges (zero and negative base   *)
(* demand, negative percentages).  The stage list is the literal of line   *)
(* 33 and is not an argument.                                              *)

EngineBaseDemands == {-50, 0, 50, 100, 200}
EngineDemandSpikes == {-200, -100, -20, 0, 10, 50}
EngineSafetyBuffers == {-200, -100, -10, 0, 15, 20, 50}
EngineUnitPrices == {RInt(0), RInt(5), RInt(100), Rat(5, 2)}

NoSummary == [over_ordering |-> <<>>, overproduction |-> <<>>, trapped |-> <<>>]

EngineInit ==
    /\ unit_price \in EngineUnitPrices
    /\ base_demand \in EngineBaseDemands
    /\ demand_spike \in EngineDemandSpikes
    /\ safety_buffer \in EngineSafetyBuffers
    /\ ns = EmptyNS
    /\ chart = <<>>
    /\ summary = NoSummary
    /\ error = "none"
    /\ history = {}
    /\ runs = 0
    /\ pc = "call"

\* lines 33-89 on the arguments chosen
Evaluate ==
    /\ pc = "call"
    /\ LET r == Script(ns, unit_price, base_demand, demand_spike, safety_buffer)
       IN  /\ ns' = r.ns
           /\ chart' = r.chart
           /\ summary' = r.summary
           /\ error' = r.error
    /\ pc' = "done"
    /\ UNCHANGED <<unit_price, base_demand, demand_spike, safety_buffer, history, runs>>

EngineNext == Evaluate

SpecEngine == EngineInit /\ [][EngineNext]_vars

---------------------------------------------------------------------------
(* Properties *)

Done == pc = "done"

Last(values) == values[Len(values)]

\* x <= y, x < y
RLeq(x, y) == RSub(y, x).n >= 0
RLess(x, y) == RSub(y, x).n > 0

\* the values are non-decreasing / non-increasing from each stage to the next
NonDecreasing(values) ==
    \A i \in 2..Len(values) : RLeq(values[i - 1], values[i])
NonIncreasing(values) ==
    \A i \in 2..Len(values) : RLeq(values[i], values[i - 1])

\* f^k by repeated multiplication
RECURSIVE RPow(_, _)
RPow(f, k) == IF k = 0 THEN RInt(1) ELSE RMul(RPow(f, k - 1), f)

\* baseDemand * (1 + demandSpikePct/100) * (1 + safetyBufferPct/100)^i
ClosedForm(bd, ds, sb, i) ==
    RMul(RMul(RInt(bd), Rat(100 + ds, 100)), RPow(Rat(100 + sb, 100), i))

\* the sum over the stages of amplified[i] - baseline[i], from the last stage down
RECURSIVE SumOfDifferences(_, _, _)
SumOfDifferences(a, b, k) ==
    IF k = 0 THEN RInt(0)
    ELSE RAdd(RSub(a[k], b[k]), SumOfDifferences(a, b, k - 1))

\* what the state shows as the current evaluation
CurrentInputs == Inputs(unit_price, base_demand, demand_spike, safety_buffer)
CurrentOutputs ==
    [baseline |-> ns.baseline_values,
     amplified |-> ns.amplified_values,
     excessInventory |-> ns.total_excess_inventory,
     trappedCapital |-> ns.trapped_capital,
     finalOverproductionRatio |-> summary.overproduction,
     error |-> error]

C2_Compounding ==
    Done => /\ Len(ns.amplified_values) = Len(stages)
            /\ \A i \in 0..(Len(stages) - 1) :
                   ns.amplified_values[i + 1]
                       = ClosedForm(base_demand, demand_spike, safety_buffer, i)

\* an evaluation in which the spike and the buffer both act, so that marking
\* up the previous stage differs from marking up the first
C2_Witness ==
    /\ Done
    /\ base_demand > 0 /\ demand_spike > 0 /\ safety_buffer > 0
    /\ RLess(ns.amplified_values[2], ns.amplified_values[3])

C4_SeriesShape ==
    Done => /\ Len(ns.baseline_values) = Len(stages)
            /\ Len(ns.amplified_values) = Len(stages)
            /\ \A i \in 1..Len(ns.baseline_values) :
                   ns.baseline_values[i] = RInt(base_demand)

\* an evaluation after a widget change in which the spike is not zero, so
\* that the base and the spiked value differ
C4_Witness ==
    /\ Done /\ runs > 0
    /\ demand_spike > 0
    /\ ns.current_demand # RInt(base_demand)

\* C5: excessInventory is the sum of the amplified series minus the sum of
\* the baseline; it is >= 0 whenever baseDemand > 0, demandSpikePct >= 0 and
\* safetyBufferPct >= 0; and it is > 0 for a positive spike with a zero
\* buffer.
C5_Excess ==
    Done => /\ ns.total_excess_inventory
                 = SumOfDifferences(ns.amplified_values, ns.baseline_values,
                                    Len(stages))
            /\ (base_demand > 0 /\ demand_spike >= 0 /\ safety_buffer >= 0)
                   => ns.total_excess_inventory.n >= 0
            /\ (base_demand > 0 /\ demand_spike > 0 /\ safety_buffer = 0)
                   => ns.total_excess_inventory.n > 0

\* a positive spike with a zero buffer has been evaluated
C5_Witness ==
    /\ Done
    /\ base_demand > 0 /\ demand_spike > 0 /\ safety_buffer = 0
    /\ ns.total_excess_inventory.n > 0

\* C6: with demandSpikePct = 0 and safetyBufferPct = 0 the amplified series
\* equals the baseline at every stage and excessInventory and trappedCapital
\* are 0, whatever baseDemand and unitPrice are.
C6_ZeroEffect ==
    (Done /\ demand_spike = 0 /\ safety_buffer = 0)
        => /\ Len(ns.amplified_values) = Len(ns.baseline_values)
           /\ \A i \in 1..Len(ns.baseline_values) :
                  ns.amplified_values[i] = ns.baseline_values[i]
           /\ ns.total_excess_inventory = RInt(0)
           /\ ns.trapped_capital = RInt(0)

\* zero spike and zero buffer evaluated with a base demand and a price that
\* are not zero
C6_Witness ==
    /\ Done
    /\ demand_spike = 0 /\ safety_buffer = 0
    /\ base_demand > 0 /\ unit_price.n > 0
    /\ Len(ns.amplified_values) = Len(stages)

\* the outputs that are not trappedCapital
OtherOutputs(o) ==
    [baseline |-> o.baseline, amplified |-> o.amplified,
     excessInventory |-> o.excessInventory,
     finalOverproductionRatio |-> o.finalOverproductionRatio,
     error |-> o.error]

\* C7: trappedCapital = excessInventory * unitPrice; with the other inputs
\* fixed, the price k * p gives k times the trapped capital of p, the price
\* p1 + p2 gives the sum of the trapped capitals of p1 and of p2, and two
\* evaluations that differ only in unitPrice agree on every other output.
C7_LinearInPrice ==
    Done =>
        /\ ns.trapped_capital = RMul(unit_price, ns.total_excess_inventory)
        /\ \A k \in {0, 2, 3} :
               Trapped(ns, RMul(RInt(k), unit_price)).trapped_capital
                   = RMul(RInt(k), ns.trapped_capital)
        /\ \A p \in UnitPriceRange :
               Trapped(ns, RAdd(unit_price, p)).trapped_capital
                   = RAdd(ns.trapped_capital, Trapped(ns, p).trapped_capital)
        /\ \A h \in history :
               (/\ h.in.base_demand = base_demand
                /\ h.in.demand_spike = demand_spike
                /\ h.in.safety_buffer = safety_buffer)
                   => OtherOutputs(h.out) = OtherOutputs(CurrentOutputs)

\* the price was changed between two evaluations of the same other inputs,
\* and there is an excess to value
C7_Witness ==
    /\ Done
    /\ ns.total_excess_inventory.n > 0 /\ unit_price.n > 0
    /\ \E h \in history :
           /\ h.in.base_demand = base_demand
           /\ h.in.demand_spike = demand_spike
           /\ h.in.safety_buffer = safety_buffer
           /\ h.in.unit_price # unit_price
           /\ h.out.trappedCapital # ns.trapped_capital

\* C8: over any sequence of evaluations, two evaluations with the same
\* inputs produced the same outputs, whatever ran in between, and the
\* outputs the page holds are those of its current inputs alone.
C8_Stateless ==
    /\ \A h1, h2 \in history : h1.in = h2.in => h1.out = h2.out
    /\ \A h \in history : h.in = CurrentInputs => h.out = CurrentOutputs
    /\ CurrentOutputs
           = Outputs(Script(EmptyNS, unit_price, base_demand, demand_spike,
                            safety_buffer), base_demand)

\* some inputs were evaluated, then others, then the first ones again
C8_Witness ==
    /\ runs >= 2
    /\ Cardinality(history) <= runs
    /\ Cardinality(history) >= 2

ScenarioA ==
    /\ Len(stages) = 5
    /\ base_demand = 100 /\ demand_spike = 10 /\ safety_buffer = 20
    /\ unit_price = RInt(5)

\* C9: Scenario A (5 stages, baseDemand 100, spike 10, buffer 20, price 5.0)
\* yields amplified = [110.0, 132.0, 158.4, 190.08, 228.096], baseline =
\* [100]*5, excessInventory = 318.576, trappedCapital = 1592.88 and
\* finalOverproductionRatio = 128.096 %, shown as 128.1 %.
C9_ScenarioA ==
    (Done /\ ScenarioA)
        => /\ ns.amplified_values
                 = <<Rat(110, 1), Rat(132, 1), Rat(1584, 10), Rat(19008, 100),
                     Rat(228096, 1000)>>
           /\ ns.baseline_values
                 = <<RInt(100), RInt(100), RInt(100), RInt(100), RInt(100)>>
           /\ ns.total_excess_inventory = Rat(318576, 1000)
           /\ ns.trapped_capital = Rat(159288, 100)
           /\ RSub(RDiv(Last(ns.amplified_values), RInt(base_demand)), RInt(1))
                 = Rat(128096, 100000)
           /\ summary.overproduction = <<1281>>
           /\ summary.trapped = <<159288>>
           /\ summary.over_ordering = <<318>>
           /\ error = "none"

\* the sliders and the price have been brought to Scenario A
C9_Witness == Done /\ runs > 0 /\ ScenarioA

\* C10: for every value the sidebar widgets produce, base_demand > 0 and
\* there are at least 2 stages, so the division by base_demand in the
\* overproduction text never has a zero divisor and the text is written.
C10_NoZeroDivisor ==
    /\ base_demand >= BaseDemandMin /\ base_demand <= BaseDemandMax
    /\ demand_spike >= DemandSpikeMin /\ demand_spike <= DemandSpikeMax
    /\ safety_buffer >= SafetyBufferMin /\ safety_buffer <= SafetyBufferMax
    /\ base_demand > 0
    /\ Len(stages) >= 2
    /\ error = "none"
    /\ Len(summary.overproduction) = 1

\* the base demand slider has been moved to its lowest position
C10_Witness ==
    /\ runs > 0
    /\ base_demand = BaseDemandMin
    /\ Len(summary.overproduction) = 1

=============================================================================
